---- MODULE Spec2Model ----
(* Interactive prompt calibration and batch propagation of the SAM segmenter  *)
(* scripts: batch_segment.py (calibrate on a template, then segment a whole   *)
(* folder) and single_segment.py (calibrate and segment one image).           *)
EXTENDS Integers, Sequences, FiniteSets, TLC

(* ------------------------------------------------------------------------ *)
(* float64 arithmetic, as numpy performs it on relative_points.              *)
(* A positive double is m * 2^e with 2^52 <= m < 2^53; the 53-bit mantissa   *)
(* is kept in three limbs of 18 bits, m = m2*B^2 + m1*B + m0, so that every  *)
(* intermediate product stays a small integer.                               *)
(* ------------------------------------------------------------------------ *)

\* float64 significand width (np.array(click_points, dtype=float))
MantBits == 53

\* bits per limb of the significand: three limbs hold it
LimbBits == (MantBits + 2) \div 3

B == 2^LimbBits

\* bits of the top limb: MantBits - 2*LimbBits
TopBits == MantBits - 2 * LimbBits

FZero == [m2 |-> 0, m1 |-> 0, m0 |-> 0, e |-> 0]

IsFZero(f) == f.m2 = 0 /\ f.m1 = 0 /\ f.m0 = 0

\* least b >= 0 with x * 2^b >= w   (x > 0)
RECURSIVE UpShift(_, _)
UpShift(x, w) == IF x >= w THEN 0 ELSE 1 + UpShift(2 * x, w)

\* greatest a >= 0 with w * 2^a <= x   (x >= w > 0)
RECURSIVE DownShift(_, _)
DownShift(x, w) == IF 2 * w > x THEN 0 ELSE 1 + DownShift(x, 2 * w)

\* the significand plus one unit in the last place, renormalised on overflow
FIncrement(f) ==
    IF f.m0 + 1 < B THEN [f EXCEPT !.m0 = f.m0 + 1]
    ELSE IF f.m1 + 1 < B THEN [f EXCEPT !.m0 = 0, !.m1 = f.m1 + 1]
    ELSE IF f.m2 + 1 < 2^TopBits THEN [f EXCEPT !.m0 = 0, !.m1 = 0, !.m2 = f.m2 + 1]
    ELSE [m2 |-> 2^(TopBits - 1), m1 |-> 0, m0 |-> 0, e |-> f.e + 1]

\* round to nearest, ties to even: rest is what was dropped, half its midpoint
FRound(f, rest, half) ==
    IF rest > half \/ (rest = half /\ f.m0 % 2 = 1) THEN FIncrement(f) ELSE f

\* x / w for integers x >= 0, w > 0, each first converted exactly to float64:
\* the correctly rounded quotient (IEEE 754 division)
FDivInt(x, w) ==
    IF x = 0 THEN FZero
    ELSE LET b  == UpShift(x, w)
             a  == DownShift(x, w)
             X  == x * 2^b
             W  == w * 2^a
             t2 == X * 2^(TopBits - 1)
             t1 == (t2 % W) * B
             t0 == (t1 % W) * B
             q  == [m2 |-> t2 \div W, m1 |-> t1 \div W, m0 |-> t0 \div W,
                    e |-> a - b - (MantBits - 1)]
         IN  FRound(q, 2 * (t0 % W), W)

\* number of bits by which p exceeds TopBits bits
RECURSIVE ExcessBits(_)
ExcessBits(p) == IF p < 2^TopBits THEN 0 ELSE 1 + ExcessBits(p \div 2)

\* f * n for an integer n > 0 converted exactly to float64: the correctly
\* rounded product (IEEE 754 multiplication)
FMulInt(f, n) ==
    IF IsFZero(f) THEN FZero
    ELSE LET p0 == f.m0 * n
             p1 == f.m1 * n + (p0 \div B)
             p2 == f.m2 * n + (p1 \div B)
             d0 == p0 % B
             d1 == p1 % B
             k  == ExcessBits(p2)
             K  == 2^k
             q  == [m2 |-> p2 \div K,
                    m1 |-> (p2 % K) * (B \div K) + (d1 \div K),
                    m0 |-> (d1 % K) * (B \div K) + (d0 \div K),
                    e  |-> f.e + k]
         IN  IF k = 0 THEN q ELSE FRound(q, d0 % K, K \div 2)

\* float64 -> integer conversion of ndarray.astype(int): the fraction is
\* discarded (truncation toward zero) for values below 2^31
FTrunc(f) ==
    IF IsFZero(f) \/ -f.e >= MantBits THEN 0
    ELSE IF -f.e >= 2 * LimbBits THEN f.m2 \div 2^(-f.e - 2 * LimbBits)
    ELSE f.m2 * 2^(2 * LimbBits + f.e) + (f.m1 \div 2^(-f.e - LimbBits))

(* ------------------------------------------------------------------------ *)
(* Coordinate conversion                                                     *)
(* ------------------------------------------------------------------------ *)

\* faulty variant: both columns divided by the width
RelativePoints_ByWidth(pts, w, h) ==
    [i \in 1..Len(pts) |-> <<FDivInt(pts[i][1], w), FDivInt(pts[i][2], w)>>]

\* relative_points = np.array(click_points, dtype=float);
\* relative_points[:, 0] /= w;  relative_points[:, 1] /= h
RelativePoints(pts, w, h) ==
    [i \in 1..Len(pts) |-> <<FDivInt(pts[i][1], w), FDivInt(pts[i][2], h)>>]

\* faulty variant: the factors in the order of image.shape, (h, w)
AbsolutePoints_Swapped(rel, w, h) ==
    [i \in 1..Len(rel) |-> <<FTrunc(FMulInt(rel[i][1], h)), FTrunc(FMulInt(rel[i][2], w))>>]

\* absolute_points = (relative_points * [w, h]).astype(int)
AbsolutePoints(rel, w, h) ==
    [i \in 1..Len(rel) |-> <<FTrunc(FMulInt(rel[i][1], w)), FTrunc(FMulInt(rel[i][2], h))>>]

(* ------------------------------------------------------------------------ *)
(* The environment: files on disk, keys and mouse events                     *)
(* ------------------------------------------------------------------------ *)

\* Python's None, and a value that is not None
None == <<>>

Some(v) == <<v>>

\* no file: the empty string filedialog returns when the dialog is cancelled
NoPath == ""

\* file names that may lie in the input folder
Files == {"a.png", "a.jpg", "b.tiff", "c.bmp"}

\* os.path.splitext(filename)
Stem == [f \in Files |-> CASE f = "a.png" -> "a" [] f = "a.jpg" -> "a"
                           [] f = "b.tiff" -> "b" [] f = "c.bmp" -> "c"]

Ext == [f \in Files |-> CASE f = "a.png" -> ".png" [] f = "a.jpg" -> ".jpg"
                          [] f = "b.tiff" -> ".tiff" [] f = "c.bmp" -> ".bmp"]

\* what cv2.imread finds: the decoded image's (width, height), or None for a
\* file that cannot be decoded
Disk == [f \in Files |-> CASE f = "a.png" -> <<100, 100>> [] f = "a.jpg" -> <<200, 50>>
                           [] f = "b.tiff" -> <<3, 2>> [] f = "c.bmp" -> None]

\* filetypes of the template dialog: *.png *.jpg *.jpeg *.tif *.tiff *.bmp
DialogExts == {".png", ".jpg", ".jpeg", ".tif", ".tiff", ".bmp"}

\* f.lower().endswith(('.png', '.jpg', '.jpeg', '.tif', '.bmp'))
BatchExts == {".png", ".jpg", ".jpeg", ".tif", ".bmp"}

\* longest directory listing explored
MaxFiles == 2

\* most clicks explored in one session
MaxPoints == 2

\* os.listdir(INPUT_FOLDER): the files of the folder, in arbitrary order
Listings ==
    { l \in UNION { [1..n -> Files] : n \in 0..MaxFiles } :
        \A i, j \in 1..Len(l) : i # j => l[i] # l[j] }

\* cv2 mouse event codes
EVENT_MOUSEMOVE == 0
EVENT_LBUTTONDOWN == 1
EVENT_RBUTTONDOWN == 2

\* values of cv2.waitKey(1) & 0xFF
KEY_SPACE == 32
KEY_ENTER == 13
KEY_R == 114
KEY_Q == 113
\* no key pressed within the delay: -1 & 0xFF
KEY_NONE == 255
\* a key no branch handles: 'R' with shift
KEY_UPPER_R == 82

Keys == {KEY_SPACE, KEY_ENTER, KEY_R, KEY_Q, KEY_NONE, KEY_UPPER_R}

\* pixels of a (w, h) image the mouse is clicked on: the centre and the last
\* pixel
ClickPixels(size) == {<<size[1] \div 2, size[2] \div 2>>, <<size[1] - 1, size[2] - 1>>}

\* the (event, pixel) pairs cv2 delivers to the callback: clicks of either
\* button, and a move of the pointer
MouseInputs(size) ==
    ({EVENT_LBUTTONDOWN, EVENT_RBUTTONDOWN} \X ClickPixels(size))
        \cup {<<EVENT_MOUSEMOVE, <<size[1] \div 2, size[2] \div 2>>>>}

\* outcomes of predictor.predict: one mask (multimask_output=False), an empty
\* list of masks, or an exception
PredictOutcomes == {"mask", "empty", "raise"}

\* the raw mask SAM computes: determined by the image bound by set_image and
\* by the prompts of the call
Mask(img, pts, lbls) == [img |-> img, pts |-> pts, lbls |-> lbls]

\* raw mask values at a sample of pixels: the values of the specification's
\* thresholding example
ExampleRaster == <<-1, 0, 1, 5>>

\* values a raw mask holds at a pixel
RawValues == {-1, 0, 1, 5}

\* pixels of the sampled rasters
MaxPixels == 1

\* the sampled rasters: every raster of MaxPixels pixels, and the example
RawRasters == [1..MaxPixels -> RawValues] \cup {ExampleRaster}

\* masks[i] as predict returns it for the bound image: the mask of the call,
\* its raw values and its shape, that of the bound image
RawMask(mask, raw, shape) == [mask |-> mask, raw |-> raw, shape |-> shape]

\* faulty variant: a raw value of 0 counts as foreground
ThresholdBatch_NonNegative(raw) ==
    [i \in 1..Len(raw) |-> (IF raw[i] >= 0 THEN 255 ELSE 0) % 256]

\* batch_segment: np.where(masks[0] > 0, 255, 0).astype(np.uint8)
ThresholdBatch(raw) == [i \in 1..Len(raw) |-> (IF raw[i] > 0 THEN 255 ELSE 0) % 256]

\* single_segment: (masks[0] > 0).astype(np.uint8) * 255
ThresholdSingle(raw) == [i \in 1..Len(raw) |-> ((IF raw[i] > 0 THEN 1 ELSE 0) * 255) % 256]

\* what cv2.imwrite(path, binary_mask) is called with for source file f, and
\* whether it succeeded
WrittenFile(f, path, m, raster, saved) ==
    [path |-> path, source |-> f, raw |-> m.raw, raster |-> raster, shape |-> m.shape,
     ok |-> saved]

\* a printed line about file f
Line(msg, f) == [msg |-> msg, file |-> f]

VARIABLES
    script,           \* which program runs: "batch" or "single"
    folder,           \* listing of the folder the chosen image lies in
    disk,             \* file name -> decoded size, or None
    rasters,          \* the raw mask rasters predict may return
    pc,               \* position in the program
    template_path,    \* TEMPLATE_PATH / image_path
    predictor_image,  \* image bound to the predictor by set_image
    image_files,      \* batch: the filtered listing
    ref_size,         \* (w, h) of the image the session runs on
    click_points,     \* global click_points
    click_labels,     \* global click_labels
    preview_mask,     \* local preview_mask
    window,           \* the window: None when closed, else Some(overlay shown)
    relative_points,  \* result of interactive_setup
    prompt_labels,    \* result of interactive_setup
    idx,              \* batch: position of the loop in image_files
    image_size,       \* batch: (w, h) of the image just loaded
    masks,            \* batch: result of the last predict
    written,          \* files written by cv2.imwrite, in order
    printed,          \* lines printed about the files being processed, in order
    predict_call,     \* the predict call made by the last step, or None
    event,            \* the input handled by the last step
    clicks            \* history: button-down events <<x, y, event code>> since the last 'r' key

vars == <<script, folder, disk, pc, template_path, predictor_image, image_files,
          ref_size, click_points, click_labels, preview_mask, window,
          relative_points, prompt_labels, idx, image_size, masks, written,
          predict_call, event, clicks, rasters, printed>>

envVars == <<script, folder, disk, rasters>>

sessionVars == <<click_points, click_labels, preview_mask, window, clicks>>

batchVars == <<image_files, relative_points, prompt_labels, idx, image_size, masks, written,
              printed>>

Step(name) == [kind |-> "step", code |-> name, x |-> 0, y |-> 0]

Key(k) == [kind |-> "key", code |-> k, x |-> 0, y |-> 0]

Mouse(ev, x, y) == [kind |-> "mouse", code |-> ev, x |-> x, y |-> y]

\* state at program start: module globals of both scripts
Globals ==
    /\ pc = "start"
    /\ template_path = NoPath
    /\ predictor_image = NoPath
    /\ image_files = <<>>
    /\ ref_size = None
    /\ click_points = <<>>
    /\ click_labels = <<>>
    /\ preview_mask = None
    /\ window = None
    /\ relative_points = None
    /\ prompt_labels = None
    /\ idx = 0
    /\ image_size = None
    /\ masks = None
    /\ written = <<>>
    /\ printed = <<>>
    /\ predict_call = None
    /\ event = Step("start")
    /\ clicks = <<>>

Init ==
    /\ script \in {"batch", "single"}
    /\ folder \in Listings
    /\ disk = Disk
    /\ rasters = {ExampleRaster}
    /\ Globals

(* ------------------------------------------------------------------------ *)
(* Start-up of both scripts                                                  *)
(* ------------------------------------------------------------------------ *)

\* the files the file dialog offers in the folder
DialogChoices == { folder[i] : i \in { j \in 1..Len(folder) : Ext[folder[j]] \in DialogExts } }

\* batch_segment.get_setup_via_gui and the check that follows it: the template
\* dialog, then the output-folder dialog; either may be cancelled
get_setup_via_gui ==
    /\ script = "batch" /\ pc = "start"
    /\ \E t \in DialogChoices \cup {NoPath}, out \in BOOLEAN :
         IF t = NoPath \/ ~out
         THEN pc' = "returned" /\ UNCHANGED template_path
         ELSE pc' = "init_sam" /\ template_path' = t
    /\ event' = Step("get_setup_via_gui")
    /\ predict_call' = None
    /\ UNCHANGED <<envVars, sessionVars, batchVars, predictor_image, ref_size>>

\* single_segment.select_input_file and the check that follows it
select_input_file ==
    /\ script = "single" /\ pc = "start"
    /\ \E t \in DialogChoices \cup {NoPath} :
         IF t = NoPath
         THEN pc' = "returned" /\ UNCHANGED template_path
         ELSE pc' = "init_sam" /\ template_path' = t
    /\ event' = Step("select_input_file")
    /\ predict_call' = None
    /\ UNCHANGED <<envVars, sessionVars, batchVars, predictor_image, ref_size>>

\* sam_model_registry[...], sam.to(device), SamPredictor(sam): an exception
\* is printed and the function returns
InitSAM ==
    /\ pc = "init_sam"
    /\ \E ok \in BOOLEAN :
         pc' = IF ~ok THEN "returned"
               ELSE IF script = "batch" THEN "listdir" ELSE "load"
    /\ event' = Step("InitSAM")
    /\ predict_call' = None
    /\ UNCHANGED <<envVars, sessionVars, batchVars, template_path, predictor_image, ref_size>>

\* f.lower().endswith(...) over the listing
IsBatchImage(f) == Ext[f] \in BatchExts

\* batch_segment: image_files = [f for f in os.listdir(INPUT_FOLDER) if ...]
ListImages ==
    /\ script = "batch" /\ pc = "listdir"
    /\ image_files' = SelectSeq(folder, IsBatchImage)
    /\ pc' = IF image_files' = <<>> THEN "returned" ELSE "load"
    /\ event' = Step("ListImages")
    /\ predict_call' = None
    /\ UNCHANGED <<envVars, sessionVars, template_path, predictor_image, ref_size,
                   relative_points, prompt_labels, idx, image_size, masks, written,
                   printed>>

\* the image is read, bound to the predictor and the window is opened:
\* interactive_setup up to its loop (an unreadable template raises ValueError),
\* process_single_image up to its loop (an unreadable image returns)
LoadReference ==
    /\ pc = "load"
    /\ IF disk[template_path] = None
       THEN /\ pc' = IF script = "batch" THEN "crashed" ELSE "returned"
            /\ UNCHANGED <<ref_size, predictor_image, window, preview_mask>>
       ELSE /\ ref_size' = disk[template_path]
            /\ predictor_image' = template_path
            /\ preview_mask' = None
            /\ window' = Some(None)
            /\ pc' = "render"
    /\ event' = Step("LoadReference")
    /\ predict_call' = None
    /\ UNCHANGED <<envVars, batchVars, template_path, click_points, click_labels, clicks>>

(* ------------------------------------------------------------------------ *)
(* The interactive loop of both scripts                                      *)
(* ------------------------------------------------------------------------ *)

\* top of the loop: the overlay of preview_mask is shown when there is one
Render ==
    /\ pc = "render"
    /\ window' = Some(preview_mask)
    /\ pc' = "waitkey"
    /\ event' = Step("Render")
    /\ predict_call' = None
    /\ UNCHANGED <<envVars, batchVars, template_path, predictor_image, ref_size,
                   click_points, click_labels, preview_mask, clicks>>

\* the label a mouse event stands for, None for an event that is no click
ClickLabel(ev) ==
    IF ev = EVENT_LBUTTONDOWN THEN Some(1)
    ELSE IF ev = EVENT_RBUTTONDOWN THEN Some(0)
    ELSE None

\* the points after the callback handled event ev at (x, y)
CallbackPoints(ev, x, y) ==
    IF ClickLabel(ev) # None THEN Append(click_points, <<x, y>>) ELSE click_points

\* faulty variant: a right click adds its point without a label
CallbackLabels_LeftOnly(ev) ==
    IF ev = EVENT_LBUTTONDOWN THEN Append(click_labels, 1) ELSE click_labels

\* the labels after the callback handled event ev
CallbackLabels(ev) ==
    IF ClickLabel(ev) # None THEN Append(click_labels, ClickLabel(ev)[1]) ELSE click_labels

\* the local preview_mask of the loop after the callback ran: the callback
\* has no access to it
CallbackPreview == preview_mask

\* mouse_callback, run by cv2.waitKey for a pending mouse event
mouse_callback ==
    /\ pc = "waitkey"
    /\ \E in \in MouseInputs(ref_size) : LET ev == in[1]  p == in[2] IN
         /\ ClickLabel(ev) # None => Len(click_points) < MaxPoints
         /\ click_points' = CallbackPoints(ev, p[1], p[2])
         /\ click_labels' = CallbackLabels(ev)
         /\ window' = IF ClickLabel(ev) # None THEN Some(None) ELSE window
         /\ clicks' = IF ClickLabel(ev) # None
                      THEN Append(clicks, <<p[1], p[2], ev>>)
                      ELSE clicks
         /\ event' = Mouse(ev, p[1], p[2])
    /\ preview_mask' = CallbackPreview
    /\ predict_call' = None
    /\ UNCHANGED <<envVars, batchVars, pc, template_path, predictor_image, ref_size>>

\* a predict call on the current prompts
CallPredict == Some([image |-> predictor_image, points |-> click_points,
                     labels |-> click_labels, space |-> template_path])

\* faulty variant: the preview is requested without the check for an empty list
KeySpace_NoGuard ==
    /\ pc = "waitkey"
    /\ event' = Key(KEY_SPACE)
    /\ predict_call' = CallPredict
    /\ \E r \in PredictOutcomes :
         IF r = "mask"
         THEN /\ preview_mask' = Some(Mask(predictor_image, click_points, click_labels))
              /\ pc' = "render"
         ELSE /\ pc' = "crashed"
              /\ UNCHANGED preview_mask
    /\ UNCHANGED <<envVars, batchVars, template_path, predictor_image, ref_size,
                   click_points, click_labels, window, clicks>>

\* SPACE: preview
KeySpace ==
    /\ pc = "waitkey"
    /\ event' = Key(KEY_SPACE)
    /\ IF Len(click_points) = 0
       THEN /\ pc' = "render"
            /\ predict_call' = None
            /\ UNCHANGED preview_mask
       ELSE /\ predict_call' = CallPredict
            /\ \E r \in PredictOutcomes :
                 IF r = "mask"
                 THEN /\ preview_mask' = Some(Mask(predictor_image, click_points, click_labels))
                      /\ pc' = "render"
                 ELSE /\ pc' = "crashed"
                      /\ UNCHANGED preview_mask
    /\ UNCHANGED <<envVars, batchVars, template_path, predictor_image, ref_size,
                   click_points, click_labels, window, clicks>>

\* faulty variant: the reset assigns a local name, the global list is kept
ResetPoints_Kept == click_points

\* the global click_points after 'r'
ResetPoints == <<>>

\* 'r': reset
KeyR ==
    /\ pc = "waitkey"
    /\ event' = Key(KEY_R)
    /\ click_points' = ResetPoints
    /\ click_labels' = <<>>
    /\ preview_mask' = None
    /\ window' = IF script = "batch" THEN Some(None) ELSE window
    /\ clicks' = <<>>
    /\ pc' = "render"
    /\ predict_call' = None
    /\ UNCHANGED <<envVars, batchVars, template_path, predictor_image, ref_size>>

\* faulty variant: the suffix is added to the whole file name
MaskPath_KeepsExtension(f) == <<f, "_mask.png">>

\* output_path: os.path.splitext(filename)[0] + "_mask.png" in the output folder
MaskPath(f) == <<Stem[f], "_mask.png">>

\* faulty variant: ENTER confirms whatever the list holds
NothingToConfirm_Never == FALSE

\* `if not click_points:` of the ENTER branch of interactive_setup
NothingToConfirm == Len(click_points) = 0

\* ENTER in batch_segment: the prompts are converted and interactive_setup
\* returns them; process_images enters its loop
ConfirmBatch ==
    /\ script = "batch" /\ pc = "waitkey"
    /\ event' = Key(KEY_ENTER)
    /\ predict_call' = None
    /\ IF NothingToConfirm
       THEN /\ pc' = "render"
            /\ UNCHANGED <<window, relative_points, prompt_labels, idx>>
       ELSE /\ window' = None
            /\ relative_points' = Some(RelativePoints(click_points, ref_size[1], ref_size[2]))
            /\ prompt_labels' = Some(click_labels)
            /\ idx' = 1
            /\ pc' = "batch_load"
    /\ UNCHANGED <<envVars, template_path, predictor_image, ref_size, click_points,
                   click_labels, preview_mask, clicks, image_files, image_size, masks,
                   written, printed>>

\* ENTER in single_segment: final prediction, then the save-folder dialog, the
\* write when a folder was chosen, and the end of the loop
ConfirmSingle ==
    /\ script = "single" /\ pc = "waitkey"
    /\ event' = Key(KEY_ENTER)
    /\ IF Len(click_points) = 0
       THEN /\ pc' = "render"
            /\ predict_call' = None
            /\ UNCHANGED <<window, written, printed>>
       ELSE /\ predict_call' = CallPredict
            /\ \E r \in PredictOutcomes, raw \in rasters, dest \in BOOLEAN, saved \in BOOLEAN :
                 IF r # "mask"
                 THEN pc' = "crashed" /\ UNCHANGED <<window, written, printed>>
                 ELSE LET m == RawMask(Mask(predictor_image, click_points, click_labels),
                                       raw, disk[predictor_image])
                      IN  /\ written' =
                               IF dest
                               THEN Append(written,
                                      WrittenFile(template_path, MaskPath(template_path), m,
                                                  ThresholdSingle(raw), saved))
                               ELSE written
                          /\ printed' =
                               Append(printed,
                                      Line(IF dest THEN "Saved" ELSE "SaveCancelled",
                                           template_path))
                          /\ window' = None
                          /\ pc' = "returned"
    /\ UNCHANGED <<envVars, template_path, predictor_image, ref_size, click_points,
                   click_labels, preview_mask, clicks, image_files, relative_points,
                   prompt_labels, idx, image_size, masks>>

\* faulty variant: 'q' in batch_segment leaves the loop and the function returns the
\* prompts collected so far
KeyQ_FallsThrough ==
    /\ pc = "waitkey"
    /\ event' = Key(KEY_Q)
    /\ window' = None
    /\ IF script = "batch"
       THEN /\ relative_points' = Some(RelativePoints(click_points, ref_size[1], ref_size[2]))
            /\ prompt_labels' = Some(click_labels)
            /\ idx' = 1
            /\ pc' = "batch_load"
       ELSE /\ pc' = "returned"
            /\ UNCHANGED <<relative_points, prompt_labels, idx>>
    /\ predict_call' = None
    /\ UNCHANGED <<envVars, template_path, predictor_image, ref_size, click_points,
                   click_labels, preview_mask, clicks, image_files, image_size, masks,
                   written, printed>>

\* 'q': batch_segment calls exit(), single_segment breaks out of its loop
KeyQ ==
    /\ pc = "waitkey"
    /\ event' = Key(KEY_Q)
    /\ window' = None
    /\ pc' = IF script = "batch" THEN "exited" ELSE "returned"
    /\ predict_call' = None
    /\ UNCHANGED <<envVars, batchVars, template_path, predictor_image, ref_size,
                   click_points, click_labels, preview_mask, clicks>>

\* faulty variant: the key is compared case-insensitively, 'R' resets the points
KeyOther_UpperRResets ==
    /\ pc = "waitkey"
    /\ \E k \in Keys \ {KEY_SPACE, KEY_R, KEY_ENTER, KEY_Q} :
         /\ event' = Key(k)
         /\ click_points' = IF k = KEY_UPPER_R THEN <<>> ELSE click_points
         /\ click_labels' = IF k = KEY_UPPER_R THEN <<>> ELSE click_labels
    /\ pc' = "render"
    /\ predict_call' = None
    /\ UNCHANGED <<envVars, batchVars, preview_mask, window, clicks, template_path,
                   predictor_image, ref_size>>

\* any other value of waitKey: no branch is taken
KeyOther ==
    /\ pc = "waitkey"
    /\ \E k \in Keys \ {KEY_SPACE, KEY_R, KEY_ENTER, KEY_Q} : event' = Key(k)
    /\ pc' = "render"
    /\ predict_call' = None
    /\ UNCHANGED <<envVars, batchVars, sessionVars, template_path, predictor_image, ref_size>>

(* ------------------------------------------------------------------------ *)
(* The batch loop of process_images                                          *)
(* ------------------------------------------------------------------------ *)

\* faulty variant: set_image is not called in the loop, the template stays bound
BoundAfterLoad_Stale(filename) == predictor_image

\* the image the predictor is bound to after the load step of filename
BoundAfterLoad(filename) == filename

\* faulty variant: the loop steps over the file after the current one
NextIndex_SkipsOne(i) == i + 2

\* for i, filename in enumerate(image_files): the next iteration
NextIndex(i) == i + 1

\* faulty variant: the loop is left at the first unreadable file
AfterUnreadable_Break == "returned"

\* `continue` after "Could not load": the loop goes on with the next file
AfterUnreadable == "batch_load"

\* for filename in image_files: cv2.imread; an unreadable file is reported
\* and skipped, a readable one is bound with predictor.set_image
BatchLoad ==
    /\ pc = "batch_load" /\ idx <= Len(image_files)
    /\ LET filename == image_files[idx] IN
         IF disk[filename] = None
         THEN /\ printed' = printed \o <<Line("Processing", filename),
                                         Line("CouldNotLoad", filename)>>
              /\ idx' = NextIndex(idx)
              /\ pc' = AfterUnreadable
              /\ UNCHANGED <<predictor_image, image_size>>
         ELSE /\ printed' = Append(printed, Line("Processing", filename))
              /\ predictor_image' = BoundAfterLoad(filename)
              /\ image_size' = disk[filename]
              /\ pc' = "batch_predict"
              /\ UNCHANGED idx
    /\ event' = Step("BatchLoad")
    /\ predict_call' = None
    /\ masks' = None
    /\ UNCHANGED <<envVars, sessionVars, template_path, ref_size, image_files,
                   relative_points, prompt_labels, written>>

\* faulty variant: the product is stored back, relative_points *= [w, h]
PromptsAfterDenormalise_InPlace ==
    Some([i \in 1..Len(relative_points[1]) |->
            <<FMulInt(relative_points[1][i][1], image_size[1]),
              FMulInt(relative_points[1][i][2], image_size[2])>>])

\* relative_points after `(relative_points * [w, h]).astype(int)`: the product
\* is a new array, relative_points is not assigned in the loop
PromptsAfterDenormalise == relative_points

\* absolute_points for this image, then predictor.predict
BatchPredict ==
    /\ pc = "batch_predict"
    /\ LET absolute_points == AbsolutePoints(relative_points[1], image_size[1], image_size[2]) IN
         /\ predict_call' = Some([image |-> predictor_image, points |-> absolute_points,
                                  labels |-> prompt_labels[1], space |-> image_files[idx]])
         /\ \E r \in PredictOutcomes, raw \in rasters :
              CASE r = "mask"  -> /\ masks' = Some(<<RawMask(Mask(predictor_image,
                                                                  absolute_points,
                                                                  prompt_labels[1]),
                                                             raw, disk[predictor_image])>>)
                                  /\ pc' = "batch_save"
                [] r = "empty" -> /\ masks' = Some(<<>>)
                                  /\ pc' = "batch_save"
                [] r = "raise" -> /\ masks' = None
                                  /\ pc' = "crashed"
    /\ relative_points' = PromptsAfterDenormalise
    /\ event' = Step("BatchPredict")
    /\ UNCHANGED <<envVars, sessionVars, template_path, predictor_image, ref_size,
                   image_files, prompt_labels, idx, image_size, written, printed>>

\* if len(masks) > 0: threshold, cv2.imwrite (which may fail and return False),
\* print; then the next file
BatchSave ==
    /\ pc = "batch_save"
    /\ IF Len(masks[1]) > 0
       THEN /\ \E saved \in BOOLEAN :
                 written' = Append(written,
                              WrittenFile(image_files[idx], MaskPath(image_files[idx]),
                                          masks[1][1], ThresholdBatch(masks[1][1].raw), saved))
            /\ printed' = Append(printed, Line("Saved", image_files[idx]))
       ELSE UNCHANGED <<written, printed>>
    /\ idx' = NextIndex(idx)
    /\ pc' = "batch_load"
    /\ event' = Step("BatchSave")
    /\ predict_call' = None
    /\ UNCHANGED <<envVars, sessionVars, template_path, predictor_image, ref_size,
                   image_files, relative_points, prompt_labels, image_size, masks>>

\* the loop is exhausted: "Batch processing complete!"
BatchDone ==
    /\ pc = "batch_load" /\ idx > Len(image_files)
    /\ pc' = "returned"
    /\ printed' = Append(printed, Line("Complete", NoPath))
    /\ event' = Step("BatchDone")
    /\ predict_call' = None
    /\ UNCHANGED <<envVars, sessionVars, template_path, predictor_image, ref_size, image_files,
                   relative_points, prompt_labels, idx, image_size, masks, written>>

Next ==
    \/ get_setup_via_gui
    \/ select_input_file
    \/ InitSAM
    \/ ListImages
    \/ LoadReference
    \/ Render
    \/ mouse_callback
    \/ KeySpace
    \/ KeyR
    \/ ConfirmBatch
    \/ ConfirmSingle
    \/ KeyQ
    \/ KeyOther
    \/ BatchLoad
    \/ BatchPredict
    \/ BatchSave
    \/ BatchDone

Spec == Init /\ [][Next]_vars

(* ------------------------------------------------------------------------ *)
(* Coordinate conversion over many image sizes: a session of batch_segment   *)
(* on a template of any size with one positive click on any of its pixels,   *)
(* about to be confirmed, and one target image of any size.                  *)
(* ------------------------------------------------------------------------ *)

\* widest image of the conversion runs
MaxWidth == 22

\* tallest image of the conversion runs
MaxHeight == 2

NormSizes == (1..MaxWidth) \X (1..MaxHeight)

\* the image sizes named by the specification's scenarios
ScenarioSizes ==
    {<<<<200, 100>>, <<400, 100>>>>, <<<<100, 100>>, <<200, 50>>>>, <<<<100, 100>>, <<100, 100>>>>}

\* (template size, target size) pairs
SizePairs == (NormSizes \X NormSizes) \cup ScenarioSizes

Pixels(size) == (0..(size[1] - 1)) \X (0..(size[2] - 1))

NormInit ==
    /\ script = "batch"
    /\ folder = <<"b.tiff", "a.jpg">>
    /\ \E sp \in SizePairs :
         /\ disk = [Disk EXCEPT !["b.tiff"] = sp[1], !["a.jpg"] = sp[2]]
         /\ ref_size = sp[1]
         /\ \E p \in Pixels(sp[1]) :
              /\ click_points = <<p>>
              /\ clicks = <<<<p[1], p[2], EVENT_LBUTTONDOWN>>>>
              /\ event = Mouse(EVENT_LBUTTONDOWN, p[1], p[2])
    /\ pc = "waitkey"
    /\ template_path = "b.tiff"
    /\ predictor_image = "b.tiff"
    /\ image_files = <<"a.jpg">>
    /\ click_labels = <<1>>
    /\ preview_mask = None
    /\ window = Some(None)
    /\ relative_points = None
    /\ prompt_labels = None
    /\ idx = 0
    /\ image_size = None
    /\ masks = None
    /\ written = <<>>
    /\ printed = <<>>
    /\ rasters = {ExampleRaster}
    /\ predict_call = None

NormNext == ConfirmBatch \/ BatchLoad \/ BatchPredict \/ BatchSave \/ BatchDone

NormSpec == NormInit /\ [][NormNext]_vars

(* ------------------------------------------------------------------------ *)
(* Confirmation and the batch over folders of several files                  *)
(* ------------------------------------------------------------------------ *)

\* files in the folder of a batch run
MaxBatchFiles == 3

BatchListings ==
    { l \in UNION { [1..n -> Files] : n \in 1..MaxBatchFiles } :
        \A i, j \in 1..Len(l) : i # j => l[i] # l[j] }

\* both scripts in their interactive loop, one left click made at the centre of
\* a readable template, the key not yet read: start-up up to listdir (batch),
\* imread and set_image have run, the model returns one of the sampled rasters
BatchInit ==
    /\ script \in {"batch", "single"}
    /\ folder \in BatchListings
    /\ disk = Disk
    /\ \E r \in RawRasters : rasters = {r}
    /\ template_path \in { t \in DialogChoices : disk[t] # None }
    /\ image_files = IF script = "batch" THEN SelectSeq(folder, IsBatchImage) ELSE <<>>
    /\ script = "batch" => image_files # <<>>
    /\ predictor_image = template_path
    /\ ref_size = disk[template_path]
    /\ LET p == <<ref_size[1] \div 2, ref_size[2] \div 2>> IN
         /\ click_points = <<p>>
         /\ clicks = <<<<p[1], p[2], EVENT_LBUTTONDOWN>>>>
         /\ event = Mouse(EVENT_LBUTTONDOWN, p[1], p[2])
    /\ click_labels = <<1>>
    /\ pc = "waitkey"
    /\ preview_mask = None
    /\ window = Some(None)
    /\ relative_points = None
    /\ prompt_labels = None
    /\ idx = 0
    /\ image_size = None
    /\ masks = None
    /\ written = <<>>
    /\ printed = <<>>
    /\ predict_call = None

BatchNext ==
    ConfirmBatch \/ ConfirmSingle \/ BatchLoad \/ BatchPredict \/ BatchSave \/ BatchDone

BatchSpec == BatchInit /\ [][BatchNext]_vars

(* ------------------------------------------------------------------------ *)
(* Properties of the coordinate conversion (checked under NormSpec)          *)
(* ------------------------------------------------------------------------ *)

AbsDiff(a, b) == IF a >= b THEN a - b ELSE b - a

Clamp(v, dim) == IF v < 0 THEN 0 ELSE IF v > dim - 1 THEN dim - 1 ELSE v

\* the integer nearest to the float f (halves go up): floor((floor(2f) + 1) / 2)
RoundNearest(f) == (FTrunc([f EXCEPT !.e = f.e + 1]) + 1) \div 2

\* the last step was the predict call of the batch loop
PredictedInBatch == event = Step("BatchPredict") /\ predict_call # None

\* C4: for every fractional point (fx, fy) and target size (w, h), the point
\* passed to the model is (fx*w, fy*h) rounded to the nearest integer pixel on
\* each axis and clamped to [0, w-1] x [0, h-1].
C4_RoundedAndClamped ==
    PredictedInBatch =>
        \A i \in 1..Len(relative_points[1]) :
            predict_call[1].points[i] =
                <<Clamp(RoundNearest(FMulInt(relative_points[1][i][1], image_size[1])),
                        image_size[1]),
                  Clamp(RoundNearest(FMulInt(relative_points[1][i][2], image_size[2])),
                        image_size[2])>>

\* C5: a pixel normalized against (W, H) at Confirm and denormalized for a
\* target of the same size (W, H) comes back within 1 pixel on each axis.
C5_RoundTrip ==
    (PredictedInBatch /\ image_size = ref_size) =>
        \A i \in 1..Len(click_points) :
            /\ AbsDiff(predict_call[1].points[i][1], click_points[i][1]) <= 1
            /\ AbsDiff(predict_call[1].points[i][2], click_points[i][2]) <= 1

\* a round trip on an image of the same size that does lose a pixel
C5_Witness ==
    /\ PredictedInBatch /\ image_size = ref_size
    /\ predict_call[1].points[1][1] = click_points[1][1] - 1

\* C6: a PromptSet calibrated on a (200,100) reference and applied to a
\* (400,100) target has every x exactly doubled and every y unchanged (scaling
\* is per axis).
C6_AspectIndependence ==
    (PredictedInBatch /\ ref_size = <<200, 100>> /\ image_size = <<400, 100>>) =>
        \A i \in 1..Len(click_points) :
            /\ predict_call[1].points[i][1] = 2 * click_points[i][1]
            /\ predict_call[1].points[i][2] = click_points[i][2]

(* ------------------------------------------------------------------------ *)
(* Properties of the calibration session (checked under Spec)                *)
(* ------------------------------------------------------------------------ *)

\* the prompts the human has given since the last reset, from the history of
\* button-down events
ClickedPoints == [i \in 1..Len(clicks) |-> <<clicks[i][1], clicks[i][2]>>]

\* the labels given with the clicks: left button positive, right button negative
ClickedLabels ==
    [i \in 1..Len(clicks) |-> IF clicks[i][3] = EVENT_LBUTTONDOWN THEN 1 ELSE 0]

\* C1: whenever a loop iteration displays a preview mask, that mask was
\* computed by a Preview after the most recent AddPoint or Reset, that is,
\* from the prompts as they are now.
C1_NoStalePreview ==
    (event = Step("Render") /\ window # None /\ window[1] # None) =>
        /\ window[1][1].pts = ClickedPoints
        /\ window[1][1].lbls = ClickedLabels

\* C2: Preview and Confirm on an empty PromptSet fail: the PromptSet stays
\* empty, the session stays in its loop without a preview, the model is not
\* called and nothing is output.
C2_EmptyGuard ==
    (event \in {Key(KEY_SPACE), Key(KEY_ENTER)} /\ clicks = <<>>) =>
        /\ click_points = <<>> /\ click_labels = <<>>
        /\ pc = "render"
        /\ preview_mask = None
        /\ predict_call = None
        /\ relative_points = None /\ prompt_labels = None
        /\ written = <<>>

\* Confirm was pressed on an empty PromptSet
C2_Witness == event = Key(KEY_ENTER) /\ clicks = <<>> /\ pc = "render"

\* C3: a successful Confirm outputs the fractional form of the PromptSet as it
\* is at that moment: same length, order and labels, each point
\* (x / refWidth, y / refHeight), points added after a Preview included.
C3_ConfirmOutput ==
    relative_points # None =>
        /\ Len(relative_points[1]) = Len(clicks)
        /\ \A i \in 1..Len(clicks) :
               relative_points[1][i] =
                   <<FDivInt(clicks[i][1], disk[template_path][1]),
                     FDivInt(clicks[i][2], disk[template_path][2])>>
        /\ prompt_labels = Some(ClickedLabels)

\* Confirm right after a point was added to a previewed PromptSet
C3_Witness ==
    /\ event = Key(KEY_ENTER) /\ relative_points # None
    /\ preview_mask # None
    /\ Len(preview_mask[1].pts) < Len(relative_points[1])

\* C7: Reset leaves the session empty (no points, no labels, no preview, still
\* in its loop), and every later Preview request and Confirm output is made
\* of the points clicked after it.
C7_Reset ==
    /\ event = Key(KEY_R) =>
          /\ click_points = <<>> /\ click_labels = <<>>
          /\ preview_mask = None
          /\ pc = "render"
    /\ (event.kind = "key" /\ predict_call # None) =>
          /\ predict_call[1].points = ClickedPoints
          /\ predict_call[1].labels = ClickedLabels
    /\ relative_points # None => Len(relative_points[1]) = Len(clicks)

\* a Reset of a previewed PromptSet (single_segment still shows the overlay
\* until the next iteration renders)
C7_Witness ==
    /\ event = Key(KEY_R) /\ click_points = <<>>
    /\ window # None /\ window[1] # None

\* C8: after Quit the program is over with no output: no fractional
\* PromptSet, the batch loop not entered, no mask file written, nothing left
\* to run.
C8_QuitNoOutput ==
    event = Key(KEY_Q) =>
        /\ pc \in {"exited", "returned"}
        /\ relative_points = None /\ prompt_labels = None
        /\ idx = 0
        /\ written = <<>>
        /\ ~ENABLED Next

\* Quit with prompts collected and previewed
C8_Witness == event = Key(KEY_Q) /\ click_points # <<>> /\ preview_mask # None

\* C9: only AddPoint (a button-down event) and Reset ('r') change the points
\* or the labels; Preview, Confirm and every other key leave them as they were.
C9_OnlyAddAndReset ==
    [][(click_points' # click_points \/ click_labels' # click_labels) =>
         \/ event'.kind = "mouse" /\ event'.code \in {EVENT_LBUTTONDOWN, EVENT_RBUTTONDOWN}
         \/ event' = Key(KEY_R)]_vars

\* a key that is no command was handled while prompts were collected
C9_Witness == event = Key(KEY_UPPER_R) /\ Len(click_points) = MaxPoints

\* C10: at every predict call the image bound to the model is the image in
\* whose pixel space the prompts of the call are expressed.
C10_BoundImage ==
    predict_call # None => predict_call[1].image = predict_call[1].space

\* a predict call of the batch on an image other than the template
C10_Witness == PredictedInBatch /\ predict_call[1].image # template_path


(* ------------------------------------------------------------------------ *)
(* The batch over the folder                                                 *)
(* ------------------------------------------------------------------------ *)

\* source files of the masks written so far, in order
Sources == [k \in 1..Len(written) |-> written[k].source]

\* the files that a line with this message was printed about
LinesOf(msg) == { printed[k].file : k \in { n \in 1..Len(printed) : printed[n].msg = msg } }

\* C11: an unreadable target image gets no mask and never stops the batch:
\* after it the loop goes on with the next image of the list, a readable image
\* whose predict returned a candidate has its mask emitted, and a batch that
\* ends has gone through every image of the list.
C11_LoadIsolation ==
    script = "batch" =>
      /\ \A k \in 1..Len(written) : disk[written[k].source] # None
      /\ (event = Step("BatchLoad") /\ pc # "batch_predict") =>
            /\ pc = "batch_load"
            /\ disk[image_files[idx - 1]] = None
            /\ printed[Len(printed)] = Line("CouldNotLoad", image_files[idx - 1])
      /\ (event = Step("BatchSave") /\ Len(masks[1]) > 0) =>
            /\ written # <<>>
            /\ written[Len(written)].source = image_files[idx - 1]
      /\ event = Step("BatchDone") =>
            /\ idx = Len(image_files) + 1
            /\ LinesOf("Processing") = { image_files[i] : i \in 1..Len(image_files) }
            /\ LinesOf("CouldNotLoad") =
                 { image_files[i] : i \in { j \in 1..Len(image_files) :
                                               disk[image_files[j]] = None } }

\* three images, the second unreadable: masks for images 1 and 3
C11_Witness ==
    /\ event = Step("BatchDone")
    /\ image_files = <<"a.png", "c.bmp", "a.jpg">>
    /\ Sources = <<"a.png", "a.jpg">>

\* C12: a predict call that fails or returns no candidates for one target
\* image skips only that image: the batch goes on with the images after it.
C12_InferenceIsolation ==
    script = "batch" =>
      /\ (event = Step("BatchPredict") /\ pc # "batch_save") => idx = Len(image_files)
      /\ (event = Step("BatchSave") /\ Len(masks[1]) = 0) =>
            pc = "batch_load" /\ idx <= Len(image_files) + 1

\* C13: every emitted raster has as many pixels as the raw mask it was
\* computed from, each pixel is 255 where the raw value is > 0 and 0 elsewhere,
\* and no other value appears; raw values [-1, 0, 1, 5] give [0, 0, 255, 255].
C13_Threshold ==
    \A k \in 1..Len(written) :
      LET raw    == written[k].raw
          raster == written[k].raster
      IN  /\ Len(raster) = Len(raw)
          /\ \A i \in 1..Len(raw) : raster[i] = IF raw[i] > 0 THEN 255 ELSE 0
          /\ \A i \in 1..Len(raster) : raster[i] \in {0, 255}
          /\ raw = <<-1, 0, 1, 5>> => raster = <<0, 0, 255, 255>>

C13_Witness ==
    /\ script = "batch" /\ event = Step("BatchSave")
    /\ written # <<>>
    /\ written[Len(written)].raw = <<-1, 0, 1, 5>>
    /\ written[Len(written)].raster = <<0, 0, 255, 255>>

\* C14: within one batch run every emitted mask goes to its own file, named
\* <source-stem>_mask.png: no two masks of the run are written to the same
\* path, so none is overwritten by a later iteration.
C14_DistinctOutputs ==
    script = "batch" =>
      /\ \A k \in 1..Len(written) : written[k].path = <<Stem[written[k].source], "_mask.png">>
      /\ \A j, k \in 1..Len(written) : j # k => written[j].path # written[k].path

IsProcessing(l) == l.msg = "Processing"

\* the files the loop has started on, in order
Started == [k \in 1..Len(SelectSeq(printed, IsProcessing)) |->
              SelectSeq(printed, IsProcessing)[k].file]

\* position of a file in the list of target images
Position(f) == CHOOSE i \in 1..Len(image_files) : image_files[i] = f

\* C15: the batch goes through the target images in the order of the list,
\* each exactly once; masks are emitted in that order, at most one per image;
\* the loop ends after the last image and not before.
C15_InOrderOnce ==
    (script = "batch" /\ idx >= 1) =>
      /\ idx <= Len(image_files) + 1
      /\ Started = SubSeq(image_files, 1,
                           IF pc \in {"batch_load", "returned"} THEN idx - 1 ELSE idx)
      /\ \A k \in 1..Len(written) :
           \E i \in 1..Len(Started) : Started[i] = written[k].source
      /\ \A j, k \in 1..Len(written) :
           j < k => Position(written[j].source) < Position(written[k].source)
      /\ pc = "returned" => idx = Len(image_files) + 1 /\ Started = image_files

\* three images, the last unreadable: two masks, in the order of the list
C15_Witness ==
    /\ event = Step("BatchDone")
    /\ image_files = <<"a.jpg", "a.png", "c.bmp">>
    /\ Sources = <<"a.jpg", "a.png">>

\* a float64 in [0.0, 1.0]
InUnitInterval(f) ==
    \/ IsFZero(f)
    \/ f.e <= -MantBits
    \/ f.e = -(MantBits - 1) /\ f.m2 = 2^(TopBits - 1) /\ f.m1 = 0 /\ f.m0 = 0

\* the batch loop is running or has run
InBatchLoop == script = "batch" /\ (idx >= 1 \/ pc \in {"batch_load", "batch_predict", "batch_save"})

\* C16: the batch loop only runs after the session was confirmed (window
\* closed, points normalised from the confirmed clicks); its PromptSet is
\* non-empty, has as many labels as points, and every coordinate of a click
\* made inside the reference image lies in [0.0, 1.0].
C16_ConfirmedPromptSet ==
    InBatchLoop =>
      /\ window = None
      /\ relative_points # None /\ prompt_labels # None
      /\ relative_points[1] = RelativePoints(click_points, ref_size[1], ref_size[2])
      /\ Len(relative_points[1]) > 0
      /\ Len(prompt_labels[1]) = Len(relative_points[1])
      /\ \A i \in 1..Len(relative_points[1]) :
           InUnitInterval(relative_points[1][i][1]) /\ InUnitInterval(relative_points[1][i][2])

\* the batch predicts with a confirmed PromptSet of two points
C16_Witness ==
    /\ script = "batch" /\ pc = "batch_predict"
    /\ Len(relative_points[1]) = 2
    /\ ~IsFZero(relative_points[1][1][1])

\* the float64 0.5
Half == [m2 |-> 2^(TopBits - 1), m1 |-> 0, m0 |-> 0, e |-> -MantBits]

\* a 100x100 reference with one positive click at (50,50), and one 200x50
\* target image
EndToEndScenario ==
    /\ script = "batch"
    /\ ref_size = <<100, 100>>
    /\ click_points = <<<<50, 50>>>> /\ click_labels = <<1>>
    /\ Len(image_files) = 1 /\ disk[image_files[1]] = <<200, 50>>

\* C17: in that scenario Confirm gives the PromptSet [(0.5, 0.5, POSITIVE)],
\* the point passed to the model for the target is pixel (100,25) with a
\* positive label, and exactly one binary raster of 200x50 is emitted, named
\* <target-stem>_mask.png.
C17_EndToEnd ==
    EndToEndScenario =>
      /\ relative_points # None =>
           relative_points[1] = <<<<Half, Half>>>> /\ prompt_labels[1] = <<1>>
      /\ PredictedInBatch =>
           /\ predict_call[1].points = <<<<100, 25>>>>
           /\ predict_call[1].labels = <<1>>
           /\ predict_call[1].image = image_files[1]
      /\ Len(written) <= 1
      /\ (event = Step("BatchSave") /\ Len(masks[1]) > 0) => Len(written) = 1
      /\ \A k \in 1..Len(written) :
           /\ written[k].path = <<Stem[image_files[1]], "_mask.png">>
           /\ written[k].shape = <<200, 50>>
           /\ \A i \in 1..Len(written[k].raster) : written[k].raster[i] \in {0, 255}

C17_Witness ==
    /\ EndToEndScenario
    /\ event = Step("BatchDone")
    /\ Len(written) = 1 /\ written[1].ok
    /\ written[1].path = <<"a", "_mask.png">>

\* C18: a batch run ends with a summary of counts (processed, skipped, failed)
\* whose sum is the number of target images, processed being the number of
\* masks emitted.
C18_SummaryCounts ==
    (script = "batch" /\ event = Step("BatchDone")) =>
      \E n \in 1..Len(printed) :
        /\ {"processed", "skipped", "failed"} \subseteq DOMAIN printed[n]
        /\ printed[n].processed + printed[n].skipped + printed[n].failed = Len(image_files)
        /\ printed[n].processed = Len(written)

\* lines that report progress, not a failure
ProgressLines == {"Processing", "Saved", "SaveCancelled", "Complete"}

\* a mask of file f was written
Emitted(f) == \E k \in 1..Len(written) : written[k].source = f /\ written[k].ok

\* C19: every target image for which no mask was emitted has a report that
\* names it and the step that failed, and no image is reported as saved when
\* its mask was not written.
C19_EverySkipReported ==
    (script = "batch" /\ event = Step("BatchDone")) =>
      \A i \in 1..Len(image_files) :
        LET f == image_files[i] IN
          /\ ~Emitted(f) =>
               \E n \in 1..Len(printed) :
                 printed[n].file = f /\ printed[n].msg \notin ProgressLines
          /\ (\E n \in 1..Len(printed) : printed[n] = Line("Saved", f)) => Emitted(f)

\* C20: when the model fails to initialize the run is over before any
\* interactive step: no file or folder dialog was shown, no window opened, no
\* click or key handled, no mask written.
C20_ModelUnavailable ==
    (event = Step("InitSAM") /\ pc = "returned") =>
      /\ template_path = NoPath
      /\ window = None
      /\ clicks = <<>> /\ click_points = <<>>
      /\ written = <<>>
      /\ ~ENABLED Next

(* ------------------------------------------------------------------------ *)
(* The model calls of the session and the prompts of the batch               *)
(* ------------------------------------------------------------------------ *)

\* C21: a Preview whose predict call fails does not end the session: the loop
\* goes on with the window open, the prompts as they were and no preview from
\* the failed call, and it still takes clicks and keys.
C21_PreviewFailureRecovers ==
    (event = Key(KEY_SPACE) /\ predict_call # None) =>
      /\ pc = "render"
      /\ window # None
      /\ click_points = ClickedPoints /\ click_labels = ClickedLabels
      /\ ENABLED Next

\* C22: every successful Preview and every successful Confirm calls predict
\* exactly once, with the current PromptSet; AddPoint and Reset never call it.
C22_PredictCalls ==
    /\ ((event = Key(KEY_SPACE) \/ event = Key(KEY_ENTER))
            /\ click_points # <<>> /\ pc # "crashed") =>
         /\ predict_call # None
         /\ predict_call[1].points = click_points
         /\ predict_call[1].labels = click_labels
    /\ (event.kind = "mouse" \/ event = Key(KEY_R)) => predict_call = None

\* C23: at every point of a session the points list and the labels list have
\* the same length and the i-th label is the one given with the i-th point
\* (left click 1, right click 0), in the order of the clicks.
C23_PointsAndLabelsPaired ==
    /\ Len(click_points) = Len(click_labels)
    /\ click_points = ClickedPoints
    /\ click_labels = ClickedLabels
    /\ \A i \in 1..Len(click_labels) : click_labels[i] \in {0, 1}

\* a negative point followed by a positive one, previewed
C23_Witness ==
    /\ click_labels = <<0, 1>>
    /\ Len(click_points) = 2
    /\ preview_mask # None
    /\ event = Key(KEY_SPACE)

\* C24: the batch phase does not change the fractional PromptSet or its
\* labels: whatever was processed, skipped or failed before, every target
\* image is denormalized from exactly the values Confirm produced, with that
\* image's own size.
C24_PromptsReadOnly ==
    InBatchLoop =>
      /\ relative_points = Some(RelativePoints(click_points, ref_size[1], ref_size[2]))
      /\ prompt_labels = Some(click_labels)
      /\ PredictedInBatch =>
           /\ predict_call[1].points =
                AbsolutePoints(RelativePoints(click_points, ref_size[1], ref_size[2]),
                               disk[image_files[idx]][1], disk[image_files[idx]][2])
           /\ predict_call[1].labels = click_labels

\* the third image is predicted after one of the first two got its mask and
\* the other got none
C24_Witness ==
    /\ PredictedInBatch /\ pc = "batch_save"
    /\ idx = 3 /\ Len(written) = 1
    /\ disk[image_files[idx]] # ref_size

\* C25: a reference image chosen in the dialog is itself a target image: the
\* target list holds every file of its folder with an extension the dialog
\* accepts, so the run never stops with "no images found" after a reference
\* image was chosen.
C25_ReferenceIsTarget ==
    (script = "batch" /\ event = Step("ListImages")) =>
      /\ \E i \in 1..Len(image_files) : image_files[i] = template_path
      /\ \A j \in 1..Len(folder) :
           Ext[folder[j]] \in DialogExts =>
             \E i \in 1..Len(image_files) : image_files[i] = folder[j]
      /\ pc # "returned"

====
